---- MODULE Spec2Model ----
(***************************************************************************)
(* Login handshake and session-task supervision of the media-saver bot.    *)
(*                                                                         *)
(* manager_and_bot.py : the front-channel conversation (login_entry,       *)
(*   received_phone, received_code, received_password, cancel_login,       *)
(*   logout_command) and the registry active_user_telethon_tasks.          *)
(* user_media_saver.py : run_user_instance, the back-channel Session Task. *)
(*                                                                         *)
(* Scheduling.  The bot framework handles one update at a time (the        *)
(* Application is built without concurrent updates), so the handlers never *)
(* interleave with each other; the Session Tasks are asyncio tasks and run *)
(* whenever a handler awaits or no handler runs.  A task is always at one  *)
(* of its await points, which are the values of its pc.  A future that was *)
(* fulfilled wakes its waiter in the next loop iteration, before the next  *)
(* update is handled (Quiescent).                                          *)
(***************************************************************************)
EXTENDS Integers, Sequences, FiniteSets, TLC

\* Login attempts (Session Tasks and their two futures) created in one run.
MaxTasks == 2

\* Bot users, and the conversations (user, chat) they hold: the
\* ConversationHandler is per_user and per_chat, user_data is per user.
\* Convs are two chats of one user, UserConvs one chat each of two users.
Convs == {<<1, 1>>, <<1, 2>>}
UserConvs == {<<1, 1>>, <<2, 1>>}
AllConvs == Convs \cup UserConvs
UserOf(c) == c[1]
Users == {UserOf(c) : c \in AllConvs}
TaskIds == 1..MaxTasks

\* Outgoing messages of the watching account that reach handle_outgoing_reply.
MaxEvents == 2
Relays == 1..MaxEvents

\* Text inputs sent while the conversation awaits the phone number.
PhoneInputs ==
    { <<"+", "1", "2", "3", "4", "5", "6", "7">>,
      <<"+", "1", "2", "3", "4", "5", "6">>,
      <<"1", "2", "3", "4", "5", "6", "7", "8">>,
      <<"+", "1", "2", "3", "a", "5", "6", "7">>,
      <<" ", "+", "1", "2", "3", "4", "5", "6", "7", " ">>,
      <<"+">> }

VARIABLES
    conv,                        \* ConversationHandler state of each (user, chat)
    user_data,                   \* context.user_data of each user: its LoginAttempt (0: empty)
    active_user_telethon_tasks,  \* the registry: user -> task (0: no entry)
    tasks,                       \* the run_user_instance tasks
    code_future,                 \* user_data['code_future'] of attempt k
    password_future,             \* user_data['password_future'] of attempt k
    files,                       \* files under sessions/
    authorized,                  \* users whose client session database holds a login
    user_ids_file,               \* lines of logged_in_user_ids.txt
    handler,                     \* the received_password call awaiting its login task (Idle: none)
    relay                        \* the handle_outgoing_reply invocations of the watching account

vars == <<conv, user_data, active_user_telethon_tasks, tasks, code_future,
          password_future, files, authorized, user_ids_file, handler, relay>>

----------------------------------------------------------------------------
(* Pure helpers *)

Digits == {"0", "1", "2", "3", "4", "5", "6", "7", "8", "9"}

RECURSIVE lstrip(_)
lstrip(s) == IF s # <<>> /\ Head(s) = " " THEN lstrip(Tail(s)) ELSE s

RECURSIVE rstrip(_)
rstrip(s) == IF s # <<>> /\ s[Len(s)] = " " THEN rstrip(SubSeq(s, 1, Len(s) - 1)) ELSE s

\* str.strip()
strip(s) == rstrip(lstrip(s))

\* str.isdigit(): non-empty and every character a digit
isdigit(s) == Len(s) >= 1 /\ \A i \in 1..Len(s) : s[i] \in Digits

\* A variant of the phone test without its length condition; the property of
\* received_phone has to tell it from PhoneValid.
PhoneValid_NoLength(phone) ==
    /\ Len(phone) >= 1 /\ phone[1] = "+"
    /\ isdigit(Tail(phone))

\* phone.startswith('+') and phone[1:].isdigit() and len(phone) > 7
PhoneValid(phone) ==
    /\ Len(phone) >= 1 /\ phone[1] = "+"
    /\ isdigit(Tail(phone))
    /\ Len(phone) > 7

\* The Telegram account id the collaborator reports for a bot user (me.id).
AccountId(u) == 77700010 + u

\* client_session_path = os.path.join('sessions', session_name), session_name = f"user_{id}"
TaskSessionFile(u) == <<"sessions", u, "">>
\* The client library keeps its own session database at <client_session_path>.session
LibrarySessionFile(u) == <<"sessions", u, ".session">>
\* session_file = os.path.join('sessions', f"user_{bot_user_id}.session")
LogoutSessionFile(u) == <<"sessions", u, ".session">>

RECURSIVE SortedSeq(_)
SortedSeq(S) ==
    IF S = {} THEN <<>>
    ELSE LET m == CHOOSE x \in S : \A y \in S : x <= y
         IN <<m>> \o SortedSeq(S \ {m})

Range(f) == {f[i] : i \in DOMAIN f}

\* str(x).isdigit() for the decimal string of an integer x
IsDigitString(x) == x >= 0

\* A variant of the store that appends the id to the file as it is.
add_user_id_to_store_Append(lines, id) == Append(lines, id)

\* add_user_id_to_store: rewrite the file, sorted, only when the id is new;
\* the ids kept are the lines for which isdigit() holds.
add_user_id_to_store(lines, id) ==
    IF id \in Range(lines) THEN lines
    ELSE SortedSeq({x \in Range(lines) : IsDigitString(x)} \cup {id})

NoTask == [owner |-> 0, pc |-> "unused", result |-> "", connected |-> FALSE,
           watching |-> FALSE, fut |-> 0, via |-> ""]

\* asyncio.Task.done()
done(t) == tasks[t].pc = "done"

\* Index of the task the next asyncio.create_task call creates.
NextTask == Cardinality({t \in TaskIds : tasks[t].owner # 0}) + 1

\* asyncio.Future.done(): a result was set, or the future was cancelled
\* (by a wait_for that timed out, or with the task that awaited it).
FutDone(f) == f \in {"value", "nil", "timeout", "cancelled"}

\* No task waits on a future that is already done: such a task is woken in
\* the next loop iteration, before the next update is handled.
Quiescent ==
    \A t \in TaskIds :
        /\ tasks[t].pc = "await_code" => ~FutDone(code_future[tasks[t].fut])
        /\ tasks[t].pc = "await_password" => ~FutDone(password_future[tasks[t].fut])

\* An event that has not arrived yet: no status message, no scratch file.
NoRelay == [pc |-> "idle", status |-> FALSE, scratch |-> "absent", sender |-> "",
            outcome |-> ""]

Idle == [conv |-> <<0, 0>>, task |-> 0]

\* No received_password call is awaiting its login task.
NoHandler == handler = Idle

APP_API_CONFIGURED == TRUE

----------------------------------------------------------------------------
Init ==
    /\ conv = [c \in AllConvs |-> "END"]
    /\ user_data = [u \in Users |-> 0]
    /\ active_user_telethon_tasks = [u \in Users |-> 0]
    /\ tasks = [t \in TaskIds |-> NoTask]
    /\ code_future = [t \in TaskIds |-> "absent"]
    /\ password_future = [t \in TaskIds |-> "absent"]
    /\ files = {}
    /\ authorized = {}
    /\ user_ids_file = <<>>
    /\ handler = Idle
    /\ relay = [i \in Relays |-> NoRelay]

----------------------------------------------------------------------------
(* Front channel: manager_and_bot.py.  The text a handler replies with is  *)
(* an operator of the state the handler starts in; the same condition      *)
(* chooses the handler's branch.                                           *)

\* The reply of login_entry (lines 113-125).
login_entry_reply(c) ==
    LET t == active_user_telethon_tasks[UserOf(c)] IN
    IF ~APP_API_CONFIGURED THEN "login_unavailable"
    ELSE IF t # 0 /\ ~done(t) THEN "active_session"
    ELSE "ask_phone"

login_entry(c) ==
    /\ NoHandler /\ Quiescent
    /\ conv[c] = "END"
    /\ conv' = [conv EXCEPT ![c] = IF login_entry_reply(c) = "ask_phone"
                                   THEN "AWAIT_PHONE" ELSE "END"]
    /\ UNCHANGED <<user_data, active_user_telethon_tasks, tasks, code_future,
                   password_future, files, authorized, user_ids_file, handler>>
    /\ UNCHANGED relay

\* The last reply of received_phone (lines 132-134, 178).
received_phone_reply(text) ==
    IF PhoneValid(strip(text)) THEN "ask_code" ELSE "invalid_phone"

\* The new task runs to its first await (client.connect()) while the
\* handler sleeps 1.5 s; constructing the client creates its session database.
received_phone(c, text) ==
    LET u == UserOf(c)
        k == NextTask
    IN
    /\ NoHandler /\ Quiescent
    /\ conv[c] = "AWAIT_PHONE"
    /\ IF received_phone_reply(text) = "invalid_phone"
       THEN UNCHANGED <<conv, user_data, active_user_telethon_tasks, tasks,
                        code_future, password_future, files>>
       ELSE /\ k <= MaxTasks
            /\ user_data' = [user_data EXCEPT ![u] = k]
            /\ code_future' = [code_future EXCEPT ![k] = "pending"]
            /\ password_future' = [password_future EXCEPT ![k] = "pending"]
            /\ tasks' = [tasks EXCEPT ![k] = [NoTask EXCEPT !.owner = u, !.pc = "connecting"]]
            /\ active_user_telethon_tasks' = [active_user_telethon_tasks EXCEPT ![u] = k]
            /\ files' = files \cup {LibrarySessionFile(u)}
            /\ conv' = [conv EXCEPT ![c] = "AWAIT_CODE"]
    /\ UNCHANGED <<authorized, user_ids_file, handler>>
    /\ UNCHANGED relay

\* A variant of the test of received_code that leaves out done().
CodeFutureOpen_NoDoneTest(u) == user_data[u] # 0

\* 'code_future' in context.user_data and not context.user_data['code_future'].done()
CodeFutureOpen(u) == user_data[u] # 0 /\ ~FutDone(code_future[user_data[u]])

PasswordFutureOpen(u) == user_data[u] # 0 /\ ~FutDone(password_future[user_data[u]])

\* A variant of received_code that asks for the password in both branches.
received_code_reply_AlwaysAsks(c) == "ask_password"

\* The replies of received_code (lines 189-204).
received_code_reply(c) ==
    IF CodeFutureOpen(UserOf(c)) THEN "ask_password" ELSE "already_processed"

received_code(c) ==
    LET u == UserOf(c) IN
    /\ NoHandler /\ Quiescent
    /\ conv[c] = "AWAIT_CODE"
    /\ code_future' = IF CodeFutureOpen(u)
                      THEN [code_future EXCEPT ![user_data[u]] = "value"]
                      ELSE code_future
    /\ conv' = [conv EXCEPT ![c] = "AWAIT_PASSWORD"]
    /\ UNCHANGED <<user_data, active_user_telethon_tasks, tasks, password_future,
                   files, authorized, user_ids_file, handler>>
    /\ UNCHANGED relay

\* task.cancel() reaching a task at one of its await points: CancelledError is
\* not an Exception, so no except clause of run_user_instance runs and the
\* client is not disconnected.
TaskCancelled(t) ==
    [tasks EXCEPT ![t] = [@ EXCEPT !.pc = "done", !.result = "cancelled", !.fut = 0]]

\* A wait_for that is cancelled cancels the future it waits on.
CodeFutureAfterCancel(cf, t) ==
    IF tasks[t].pc = "await_code" /\ cf[tasks[t].fut] = "pending"
    THEN [cf EXCEPT ![tasks[t].fut] = "cancelled"] ELSE cf

PasswordFutureAfterCancel(pf, t) ==
    IF tasks[t].pc = "await_password" /\ pf[tasks[t].fut] = "pending"
    THEN [pf EXCEPT ![tasks[t].fut] = "cancelled"] ELSE pf

\* A variant of the registry in which a pop removes the entries of all users.
RegistryPop_All(u) == [v \in Users |-> 0]

\* active_user_telethon_tasks.pop(bot_user_id, None)
RegistryPop(u) == [active_user_telethon_tasks EXCEPT ![u] = 0]

\* The reply of received_password for each outcome of awaiting the login
\* task (lines 228-261); a cancelled task raises CancelledError, which no
\* except clause catches and the return in the finally block discards.
LoginReply(result) ==
    CASE result = "id" -> "login_success"
      [] result = "none" -> "login_failed"
      [] result = "timeout" -> "login_timeout"
      [] result = "password_invalid" -> "bad_password"
      [] result = "code_invalid" -> "bad_code"
      [] result = "phone_invalid" -> "bad_phone"
      [] result = "cancelled" -> "no_reply"
      [] OTHER -> "unexpected_error"

\* The registry after received_password saw the outcome: the entry stays on
\* success (and when CancelledError passes through), it is popped otherwise.
RegistryAfterLogin(u, result) ==
    IF result \in {"id", "cancelled"} THEN active_user_telethon_tasks ELSE RegistryPop(u)

\* received_password up to its await of the login task (or to its end, when
\* user_data holds no login task: lines 265-269).
received_password_begin(c) ==
    LET u == UserOf(c)
        k == user_data[u]
    IN
    /\ NoHandler /\ Quiescent
    /\ conv[c] = "AWAIT_PASSWORD"
    /\ password_future' = IF PasswordFutureOpen(u)
                          THEN [password_future EXCEPT ![k] = "value"]
                          ELSE password_future
    /\ IF k # 0
       THEN /\ handler' = [conv |-> c, task |-> k]
            /\ UNCHANGED conv
       ELSE /\ conv' = [conv EXCEPT ![c] = "END"]
            /\ UNCHANGED handler
    /\ UNCHANGED <<user_data, active_user_telethon_tasks, tasks, code_future,
                   files, authorized, user_ids_file>>
    /\ UNCHANGED relay

\* The awaited login task is done: the branches of lines 226-264.
received_password_end(c) ==
    LET u == UserOf(c)
        r == tasks[handler.task].result
    IN
    /\ handler.conv = c
    /\ done(handler.task)
    /\ user_ids_file' = IF r = "id" THEN add_user_id_to_store(user_ids_file, AccountId(u))
                        ELSE user_ids_file
    /\ active_user_telethon_tasks' = RegistryAfterLogin(u, r)
    /\ user_data' = [user_data EXCEPT ![u] = 0]
    /\ conv' = [conv EXCEPT ![c] = "END"]
    /\ handler' = Idle
    /\ UNCHANGED <<tasks, code_future, password_future, files, authorized>>
    /\ UNCHANGED relay

\* A variant of the timeout branch that stores the account id all the same.
received_password_timeout_StoresId(c) ==
    LET u == UserOf(c)
        t == handler.task
    IN
    /\ handler.conv = c
    /\ ~done(t) /\ Quiescent
    /\ tasks' = TaskCancelled(t)
    /\ code_future' = CodeFutureAfterCancel(code_future, t)
    /\ password_future' = PasswordFutureAfterCancel(password_future, t)
    /\ active_user_telethon_tasks' = RegistryAfterLogin(u, "timeout")
    /\ user_data' = [user_data EXCEPT ![u] = 0]
    /\ user_ids_file' = add_user_id_to_store(user_ids_file, AccountId(u))
    /\ conv' = [conv EXCEPT ![c] = "END"]
    /\ handler' = Idle
    /\ UNCHANGED <<files, authorized>>
    /\ UNCHANGED relay

\* asyncio.wait_for(login_task, timeout=30.0) times out: it cancels the login
\* task, waits for it to end and raises TimeoutError (lines 245-248).
received_password_timeout(c) ==
    LET u == UserOf(c)
        t == handler.task
    IN
    /\ handler.conv = c
    /\ ~done(t) /\ Quiescent
    /\ tasks' = TaskCancelled(t)
    /\ code_future' = CodeFutureAfterCancel(code_future, t)
    /\ password_future' = PasswordFutureAfterCancel(password_future, t)
    /\ active_user_telethon_tasks' = RegistryAfterLogin(u, "timeout")
    /\ user_data' = [user_data EXCEPT ![u] = 0]
    /\ conv' = [conv EXCEPT ![c] = "END"]
    /\ handler' = Idle
    /\ UNCHANGED <<files, authorized, user_ids_file>>
    /\ UNCHANGED relay

\* The futures after cancel_login's set_result(None) calls (lines 279-282).
CodeFutureAfterCancelLogin(u) ==
    IF CodeFutureOpen(u) THEN [code_future EXCEPT ![user_data[u]] = "nil"]
    ELSE code_future

PasswordFutureAfterCancelLogin(u) ==
    IF PasswordFutureOpen(u) THEN [password_future EXCEPT ![user_data[u]] = "nil"]
    ELSE password_future

\* The task cancel_login pops waits on a future cancel_login has just
\* fulfilled with None.
WaitsOnNone(t, cf, pf) ==
    IF tasks[t].pc = "await_code" THEN cf[tasks[t].fut] = "nil"
    ELSE IF tasks[t].pc = "await_password" THEN pf[tasks[t].fut] = "nil"
    ELSE FALSE

\* cancel_login: set_result(None) on the pending futures, then task.cancel()
\* in the same loop iteration.  A task that waits on a future fulfilled just
\* before is either cancelled (the wait raises CancelledError) or, where
\* wait_for returns the result of a future that is done when the cancellation
\* arrives, gets None, disconnects and returns None.
cancel_login(c) ==
    LET u == UserOf(c)
        t == active_user_telethon_tasks[u]
        cf == CodeFutureAfterCancelLogin(u)
        pf == PasswordFutureAfterCancelLogin(u)
    IN
    /\ NoHandler /\ Quiescent
    /\ conv[c] # "END"
    /\ IF t # 0 /\ ~done(t)
       THEN \/ /\ tasks' = TaskCancelled(t)
               /\ code_future' = CodeFutureAfterCancel(cf, t)
               /\ password_future' = PasswordFutureAfterCancel(pf, t)
            \/ /\ WaitsOnNone(t, cf, pf)
               /\ tasks' = [tasks EXCEPT ![t] = [@ EXCEPT !.pc = "done", !.result = "none",
                                                   !.connected = FALSE, !.fut = 0]]
               /\ code_future' = cf
               /\ password_future' = pf
       ELSE /\ UNCHANGED tasks
            /\ code_future' = cf
            /\ password_future' = pf
    /\ active_user_telethon_tasks' = RegistryPop(u)
    /\ user_data' = [user_data EXCEPT ![u] = 0]
    /\ conv' = [conv EXCEPT ![c] = "END"]
    /\ UNCHANGED <<files, authorized, user_ids_file, handler>>
    /\ UNCHANGED relay

\* logout_command: pop the registry entry, cancel the task when it is not done
\* and wait for it, then remove sessions/user_<id>.session (removed = FALSE:
\* os.remove raised OSError).  /logout is a plain command handler: it neither
\* reads nor changes the conversation state or user_data.
logout_reply(c, removed) ==
    IF active_user_telethon_tasks[UserOf(c)] = 0 THEN "not_logged_in"
    ELSE IF LogoutSessionFile(UserOf(c)) \notin files THEN "logged_out_no_file"
    ELSE IF removed THEN "logged_out_file_removed"
    ELSE "logout_remove_failed"

logout_command(c, removed) ==
    LET u == UserOf(c)
        t == active_user_telethon_tasks[u]
    IN
    /\ NoHandler /\ Quiescent
    /\ active_user_telethon_tasks' = RegistryPop(u)
    /\ IF t # 0 /\ ~done(t)
       THEN /\ tasks' = TaskCancelled(t)
            /\ code_future' = CodeFutureAfterCancel(code_future, t)
            /\ password_future' = PasswordFutureAfterCancel(password_future, t)
       ELSE UNCHANGED <<tasks, code_future, password_future>>
    /\ IF logout_reply(c, removed) = "logged_out_file_removed"
       THEN /\ files' = files \ {LogoutSessionFile(u)}
            /\ authorized' = authorized \ {u}
       ELSE UNCHANGED <<files, authorized>>
    /\ UNCHANGED <<conv, user_data, user_ids_file, handler>>
    /\ UNCHANGED relay

\* conversation_timeout=600 with no handler registered for the TIMEOUT state
\* (lines 338-349): the framework ends the conversation and calls nothing
\* else.  The timer restarts with every update of the conversation, and the
\* 300 s waits of the user's pending login attempt end before it fires.
conversation_timeout(c) ==
    LET k == user_data[UserOf(c)] IN
    /\ conv[c] # "END"
    /\ handler.conv # c
    /\ IF k = 0 THEN TRUE ELSE done(k)
    /\ conv' = [conv EXCEPT ![c] = "END"]
    /\ UNCHANGED <<user_data, active_user_telethon_tasks, tasks, code_future,
                   password_future, files, authorized, user_ids_file, handler>>
    /\ UNCHANGED relay

----------------------------------------------------------------------------
(* Back channel: run_user_instance of user_media_saver.py.  Each action is  *)
(* the code between two await points; ans is what the collaborator call     *)
(* returned or raised.                                                      *)

ConnectAnswers == {"ok", "fails"}
SendCodeAnswers == {"ok", "PhoneNumberInvalidError", "Exception"}
SignInCodeAnswers == {"ok", "SessionPasswordNeededError", "PhoneCodeInvalidError",
                      "PhoneNumberInvalidError", "Exception"}
SignInPasswordAnswers == {"ok", "PasswordHashInvalidError", "Exception"}
VerifyAnswers == {"ok", "not_authorized", "write_fails"}

\* A variant of the task that ends without client.disconnect().
TaskEnds_StaysConnected(t, result) ==
    [tasks EXCEPT ![t] = [@ EXCEPT !.pc = "done", !.result = result, !.fut = 0]]

\* The task ends after client.disconnect(): return None, or a re-raised error.
TaskEnds(t, result) ==
    [tasks EXCEPT ![t] = [@ EXCEPT !.pc = "done", !.result = result,
                                   !.connected = FALSE, !.fut = 0]]

\* A variant of the except clauses that turns every error into return None.
ErrorResult_AllNone(ans) == "none"

\* The except clauses of lines 69-89 and 223-230: the three login errors are
\* re-raised out of the task, every other exception becomes return None.
ErrorResult(ans) ==
    CASE ans = "PhoneCodeInvalidError" -> "code_invalid"
      [] ans = "PhoneNumberInvalidError" -> "phone_invalid"
      [] ans = "PasswordHashInvalidError" -> "password_invalid"
      [] OTHER -> "none"

\* A variant of the callbacks in which the task does not wait for the user
\* and goes straight on to the write of the session file.
TaskAwaits_SkipsWait(t, pc) == [tasks EXCEPT ![t] = [@ EXCEPT !.pc = "verify"]]

\* get_code_callback / get_password_callback: the future is looked up in
\* context.user_data when the callback is called; after user_data.clear()
\* the lookup raises KeyError, which run_user_instance handles as a failure.
TaskAwaits(t, pc) ==
    LET k == user_data[tasks[t].owner] IN
    IF k = 0 THEN TaskEnds(t, ErrorResult("KeyError"))
    ELSE [tasks EXCEPT ![t] = [@ EXCEPT !.pc = pc, !.fut = k]]

\* sign_in returned the user entity: on to the check of line 95.
TaskSignedIn(t, via) == [tasks EXCEPT ![t] = [@ EXCEPT !.pc = "verify", !.via = via]]

\* A variant of the task that requests a code although the session is
\* already authorized.
TaskConnect_IgnoresSession(t, ans) ==
    /\ tasks[t].pc = "connecting"
    /\ tasks' = IF ans # "ok" THEN TaskEnds(t, "none")
                ELSE [tasks EXCEPT ![t] = [@ EXCEPT !.pc = "send_code", !.connected = TRUE]]
    /\ UNCHANGED <<conv, user_data, active_user_telethon_tasks, code_future,
                   password_future, files, authorized, user_ids_file, handler>>
    /\ UNCHANGED relay

\* await client.connect(), then await client.is_user_authorized() and, for a
\* session that is already authorized, me = await client.get_me()
TaskConnect(t, ans) ==
    /\ tasks[t].pc = "connecting"
    /\ tasks' = IF ans # "ok" THEN TaskEnds(t, "none")
                ELSE IF tasks[t].owner \in authorized
                THEN [tasks EXCEPT ![t] = [@ EXCEPT !.pc = "verify", !.connected = TRUE,
                                                    !.via = "session"]]
                ELSE [tasks EXCEPT ![t] = [@ EXCEPT !.pc = "send_code", !.connected = TRUE]]
    /\ UNCHANGED <<conv, user_data, active_user_telethon_tasks, code_future,
                   password_future, files, authorized, user_ids_file, handler>>
    /\ UNCHANGED relay

\* await client.send_code_request(phone), then the call of get_code_callback
TaskSendCode(t, ans) ==
    /\ tasks[t].pc = "send_code"
    /\ tasks' = IF ans = "ok" THEN TaskAwaits(t, "await_code")
                ELSE TaskEnds(t, ErrorResult(ans))
    /\ UNCHANGED <<conv, user_data, active_user_telethon_tasks, code_future,
                   password_future, files, authorized, user_ids_file, handler>>
    /\ UNCHANGED relay

\* A variant of the task that goes on to sign in when the callback gave None.
TaskAfterWait_NoneGoesOn(t, fut, next) ==
    IF fut \in {"value", "nil"} THEN [tasks EXCEPT ![t] = [@ EXCEPT !.pc = next, !.fut = 0]]
    ELSE [tasks EXCEPT ![t] = [@ EXCEPT !.pc = "done", !.result = "cancelled", !.fut = 0]]

\* The awaited future is done: a value goes on to the next sign-in, None ends
\* the task after a disconnect, a cancelled future raises CancelledError in
\* the waiter.
TaskAfterWait(t, fut, next) ==
    IF fut = "value" THEN [tasks EXCEPT ![t] = [@ EXCEPT !.pc = next, !.fut = 0]]
    ELSE IF fut = "nil" THEN TaskEnds(t, "none")
    ELSE TaskCancelled(t)

TaskCodeReceived(t) ==
    /\ tasks[t].pc = "await_code"
    /\ FutDone(code_future[tasks[t].fut])
    /\ tasks' = TaskAfterWait(t, code_future[tasks[t].fut], "sign_in_code")
    /\ UNCHANGED <<conv, user_data, active_user_telethon_tasks, code_future,
                   password_future, files, authorized, user_ids_file, handler>>
    /\ UNCHANGED relay

\* asyncio.wait_for(code_future, timeout=300.0) times out: the future is
\* cancelled and the callback returns None.
CodeWaitTimeout(t) ==
    /\ tasks[t].pc = "await_code"
    /\ code_future[tasks[t].fut] = "pending"
    /\ code_future' = [code_future EXCEPT ![tasks[t].fut] = "timeout"]
    /\ tasks' = TaskEnds(t, "none")
    /\ UNCHANGED <<conv, user_data, active_user_telethon_tasks, password_future,
                   files, authorized, user_ids_file, handler>>
    /\ UNCHANGED relay

\* me = await client.sign_in(phone=..., code=user_code)
TaskSignInCode(t, ans) ==
    /\ tasks[t].pc = "sign_in_code"
    /\ tasks' = IF ans = "ok" THEN TaskSignedIn(t, "code")
                ELSE IF ans = "SessionPasswordNeededError" THEN TaskAwaits(t, "await_password")
                ELSE TaskEnds(t, ErrorResult(ans))
    /\ authorized' = IF ans = "ok" THEN authorized \cup {tasks[t].owner} ELSE authorized
    /\ UNCHANGED <<conv, user_data, active_user_telethon_tasks, code_future,
                   password_future, files, user_ids_file, handler>>
    /\ UNCHANGED relay

TaskPasswordReceived(t) ==
    /\ tasks[t].pc = "await_password"
    /\ FutDone(password_future[tasks[t].fut])
    /\ tasks' = TaskAfterWait(t, password_future[tasks[t].fut], "sign_in_password")
    /\ UNCHANGED <<conv, user_data, active_user_telethon_tasks, code_future,
                   password_future, files, authorized, user_ids_file, handler>>
    /\ UNCHANGED relay

PasswordWaitTimeout(t) ==
    /\ tasks[t].pc = "await_password"
    /\ password_future[tasks[t].fut] = "pending"
    /\ password_future' = [password_future EXCEPT ![tasks[t].fut] = "timeout"]
    /\ tasks' = TaskEnds(t, "none")
    /\ UNCHANGED <<conv, user_data, active_user_telethon_tasks, code_future,
                   files, authorized, user_ids_file, handler>>
    /\ UNCHANGED relay

\* me = await client.sign_in(password=user_password)
TaskSignInPassword(t, ans) ==
    /\ tasks[t].pc = "sign_in_password"
    /\ tasks' = IF ans = "ok" THEN TaskSignedIn(t, "password")
                ELSE TaskEnds(t, ErrorResult(ans))
    /\ authorized' = IF ans = "ok" THEN authorized \cup {tasks[t].owner} ELSE authorized
    /\ UNCHANGED <<conv, user_data, active_user_telethon_tasks, code_future,
                   password_future, files, user_ids_file, handler>>
    /\ UNCHANGED relay

\* Lines 95-221: the second is_user_authorized() check, the write of the
\* session file, the event handler and the monitoring task, return my_id.
\* open(client_session_path, 'w') creates the file; f.write(session.save())
\* raises when the session object gives no string to write.  The monitoring
\* task (client.run_until_disconnected()) outlives the task that returns.
TaskVerify(t, ans) ==
    /\ tasks[t].pc = "verify"
    /\ files' = IF ans = "not_authorized" THEN files
                ELSE files \cup {TaskSessionFile(tasks[t].owner)}
    /\ tasks' = IF ans = "ok"
                THEN [tasks EXCEPT ![t] = [@ EXCEPT !.pc = "done", !.result = "id",
                                                    !.watching = TRUE]]
                ELSE TaskEnds(t, "none")
    /\ UNCHANGED <<conv, user_data, active_user_telethon_tasks, code_future,
                   password_future, authorized, user_ids_file, handler>>
    /\ UNCHANGED relay

----------------------------------------------------------------------------
Next ==
    \/ \E c \in Convs : login_entry(c)
    \/ \E c \in Convs, text \in PhoneInputs : received_phone(c, text)
    \/ \E c \in Convs : received_code(c)
    \/ \E c \in Convs : received_password_begin(c)
    \/ \E c \in Convs : received_password_end(c)
    \/ \E c \in Convs : received_password_timeout(c)
    \/ \E c \in Convs : cancel_login(c)
    \/ \E c \in Convs, removed \in BOOLEAN : logout_command(c, removed)
    \/ \E c \in Convs : conversation_timeout(c)
    \/ \E t \in TaskIds, ans \in ConnectAnswers : TaskConnect(t, ans)
    \/ \E t \in TaskIds, ans \in SendCodeAnswers : TaskSendCode(t, ans)
    \/ \E t \in TaskIds : TaskCodeReceived(t)
    \/ \E t \in TaskIds : CodeWaitTimeout(t)
    \/ \E t \in TaskIds, ans \in SignInCodeAnswers : TaskSignInCode(t, ans)
    \/ \E t \in TaskIds : TaskPasswordReceived(t)
    \/ \E t \in TaskIds : PasswordWaitTimeout(t)
    \/ \E t \in TaskIds, ans \in SignInPasswordAnswers : TaskSignInPassword(t, ans)
    \/ \E t \in TaskIds, ans \in VerifyAnswers : TaskVerify(t, ans)

Spec == Init /\ [][Next]_vars

\* The same program with two users, each in a chat of their own.
NextUsers ==
    \/ \E c \in UserConvs : login_entry(c)
    \/ \E c \in UserConvs, text \in PhoneInputs : received_phone(c, text)
    \/ \E c \in UserConvs : received_code(c)
    \/ \E c \in UserConvs : received_password_begin(c)
    \/ \E c \in UserConvs : received_password_end(c)
    \/ \E c \in UserConvs : received_password_timeout(c)
    \/ \E c \in UserConvs : cancel_login(c)
    \/ \E c \in UserConvs, removed \in BOOLEAN : logout_command(c, removed)
    \/ \E c \in UserConvs : conversation_timeout(c)
    \/ \E t \in TaskIds, ans \in ConnectAnswers : TaskConnect(t, ans)
    \/ \E t \in TaskIds, ans \in SendCodeAnswers : TaskSendCode(t, ans)
    \/ \E t \in TaskIds : TaskCodeReceived(t)
    \/ \E t \in TaskIds : CodeWaitTimeout(t)
    \/ \E t \in TaskIds, ans \in SignInCodeAnswers : TaskSignInCode(t, ans)
    \/ \E t \in TaskIds : TaskPasswordReceived(t)
    \/ \E t \in TaskIds : PasswordWaitTimeout(t)
    \/ \E t \in TaskIds, ans \in SignInPasswordAnswers : TaskSignInPassword(t, ans)
    \/ \E t \in TaskIds, ans \in VerifyAnswers : TaskVerify(t, ans)

SpecUsers == Init /\ [][NextUsers]_vars

----------------------------------------------------------------------------
(* Properties of the handshake and of the supervision of Session Tasks *)

\* A Session Task runs until it has ended and its watch phase has ended too.
Running(t) == tasks[t].owner # 0 /\ (~done(t) \/ tasks[t].watching)

RunningOf(u) == {t \in TaskIds : tasks[t].owner = u /\ Running(t)}

\* The registry entry of u names a task that is still running.
LiveEntry(u) ==
    /\ active_user_telethon_tasks[u] # 0
    /\ Running(active_user_telethon_tasks[u])

\* C1: at every moment every user has at most one running Session Task, the
\* watch phase of a task that logged in counting as running.
C1_AtMostOneRunningTask == \A u \in Users : Cardinality(RunningOf(u)) <= 1

\* C2: while the registry entry of a user names a running Session Task,
\* /login is refused with the active-session reply and leaves the
\* conversation ended, and a phone number never makes received_phone create
\* a task or replace the registry entry.
C2_NoSecondSession ==
    [][\A c \in Convs :
          LiveEntry(UserOf(c)) =>
            /\ login_entry(c) =>
                 login_entry_reply(c) = "active_session" /\ conv'[c] = "END"
            /\ \A text \in PhoneInputs :
                 received_phone(c, text) =>
                   /\ tasks' = tasks
                   /\ active_user_telethon_tasks' = active_user_telethon_tasks]_vars

\* C3: after /cancel in a handshake both futures of the user's login attempt
\* are done (fulfilled with the user's value or with None, or given up by the
\* task), the registry has no entry for the user, the LoginAttempt is empty,
\* the conversation is ended and the Session Task the registry named for the
\* user no longer runs.
C3_CancelCleansUp ==
    [][\A c \in Convs :
          cancel_login(c) =>
            /\ user_data[UserOf(c)] # 0 =>
                 /\ FutDone(code_future'[user_data[UserOf(c)]])
                 /\ FutDone(password_future'[user_data[UserOf(c)]])
            /\ active_user_telethon_tasks'[UserOf(c)] = 0
            /\ user_data'[UserOf(c)] = 0
            /\ conv'[c] = "END"
            /\ active_user_telethon_tasks[UserOf(c)] # 0 =>
                 /\ tasks'[active_user_telethon_tasks[UserOf(c)]].pc = "done"
                 /\ ~tasks'[active_user_telethon_tasks[UserOf(c)]].watching]_vars

\* C4: /logout of a user with a registry entry removes the entry and leaves
\* the Session Task the entry named not running, the watch phase of a task
\* that has logged in included.
C4_LogoutStopsSession ==
    [][\A c \in Convs, removed \in BOOLEAN :
          (logout_command(c, removed) /\ active_user_telethon_tasks[UserOf(c)] # 0) =>
            /\ active_user_telethon_tasks'[UserOf(c)] = 0
            /\ tasks'[active_user_telethon_tasks[UserOf(c)]].pc = "done"
            /\ ~tasks'[active_user_telethon_tasks[UserOf(c)]].watching]_vars

\* C5: after a /logout that meets no filesystem error, no credential file
\* written by the user's Session Task is left under sessions/.
C5_LogoutDeletesCredentials ==
    [][\A c \in Convs, removed \in BOOLEAN :
          (logout_command(c, removed) /\ logout_reply(c, removed) # "logout_remove_failed") =>
            TaskSessionFile(UserOf(c)) \notin files']_vars

\* C6: a code future left unfulfilled for 300 s ends the Session Task with a
\* failure after a disconnect, and the handshake of that attempt is ended by
\* the Coordinator reporting a login failure (or by the user's /cancel).
C6_CodeTimeoutIsReported ==
    [][/\ \A t \in TaskIds :
            CodeWaitTimeout(t) =>
              /\ tasks'[t].pc = "done" /\ tasks'[t].result = "none"
              /\ ~tasks'[t].connected
       /\ \A c \in Convs :
            ( /\ conv[c] # "END" /\ conv'[c] = "END"
              /\ user_data[UserOf(c)] # 0
              /\ code_future[user_data[UserOf(c)]] = "timeout" ) =>
                \/ cancel_login(c)
                \/ /\ received_password_end(c)
                   /\ LoginReply(tasks[handler.task].result) = "login_failed"]_vars

\* C7: a conversation that ends by the idle timeout is cleaned up as by
\* /cancel: the futures of the login attempt are done, the registry has no
\* entry for the user, the LoginAttempt is empty and no task of the user runs.
C7_IdleTimeoutCleansUp ==
    [][\A c \in Convs :
          conversation_timeout(c) =>
            /\ user_data[UserOf(c)] # 0 =>
                 /\ FutDone(code_future'[user_data[UserOf(c)]])
                 /\ FutDone(password_future'[user_data[UserOf(c)]])
            /\ active_user_telethon_tasks'[UserOf(c)] = 0
            /\ user_data'[UserOf(c)] = 0
            /\ \A t \in TaskIds :
                 tasks'[t].owner = UserOf(c) =>
                   tasks'[t].pc = "done" /\ ~tasks'[t].watching]_vars

\* The login attempt of u has logged in with the code alone.
LoggedInByCode(u) ==
    /\ user_data[u] # 0
    /\ tasks[user_data[u]].result = "id"
    /\ tasks[user_data[u]].via = "code"

\* C8: a handshake whose code was accepted without a second factor ends,
\* unless the user cancels it, with the account id in the list of logged-in
\* ids, the success reply, and the registry naming the watching task.
C8_CodeAloneCompletesLogin ==
    [][\A c \in Convs :
          ( /\ conv[c] # "END" /\ conv'[c] = "END"
            /\ LoggedInByCode(UserOf(c))
            /\ ~cancel_login(c) ) =>
              /\ AccountId(UserOf(c)) \in Range(user_ids_file')
              /\ handler.conv = c
              /\ LoginReply(tasks[handler.task].result) = "login_success"
              /\ active_user_telethon_tasks'[UserOf(c)] = user_data[UserOf(c)]
              /\ tasks'[user_data[UserOf(c)]].watching]_vars

\* '+' followed by at least seven digits and nothing else
WellFormedPhone(s) ==
    /\ Len(s) >= 8
    /\ s[1] = "+"
    /\ \A i \in 2..Len(s) : s[i] \in Digits

\* What received_phone does with a text that counts as a phone number, and
\* with one that does not.
PhoneAccepted(c) ==
    /\ conv'[c] = "AWAIT_CODE"
    /\ user_data'[UserOf(c)] # 0
    /\ tasks'[user_data'[UserOf(c)]].pc = "connecting"
    /\ tasks[user_data'[UserOf(c)]].pc = "unused"
    /\ active_user_telethon_tasks'[UserOf(c)] = user_data'[UserOf(c)]

PhoneRefused(c) ==
    /\ conv'[c] = "AWAIT_PHONE"
    /\ UNCHANGED <<user_data, active_user_telethon_tasks, tasks, code_future,
                   password_future>>

\* C9 as stated: the text itself has to be '+' followed by at least seven
\* digits and nothing else; any other text is refused with the format reply
\* and the conversation stays in AWAIT_PHONE with no task, future or entry.
C9_PhoneFormatOfRawText ==
    [][\A c \in Convs, text \in PhoneInputs :
          received_phone(c, text) =>
            IF WellFormedPhone(text)
            THEN received_phone_reply(text) = "ask_code" /\ PhoneAccepted(c)
            ELSE received_phone_reply(text) = "invalid_phone" /\ PhoneRefused(c)]_vars

\* C9, amended: the test is made on the text without its leading and
\* trailing white space.
C9_PhoneFormatAfterStrip ==
    [][\A c \in Convs, text \in PhoneInputs :
          received_phone(c, text) =>
            IF WellFormedPhone(strip(text))
            THEN received_phone_reply(text) = "ask_code" /\ PhoneAccepted(c)
            ELSE received_phone_reply(text) = "invalid_phone" /\ PhoneRefused(c)]_vars

\* A phone number was accepted: the conversation awaits the code of a task
\* that has just been created.
C9_PhoneWasAccepted ==
    \E c \in Convs :
        /\ conv[c] = "AWAIT_CODE"
        /\ user_data[UserOf(c)] # 0
        /\ tasks[user_data[UserOf(c)]].pc = "connecting"
        /\ active_user_telethon_tasks[UserOf(c)] = user_data[UserOf(c)]

Rejections == {"code_invalid", "phone_invalid", "password_invalid"}

\* The reply that names each kind of rejection.
RejectionReply(r) ==
    CASE r = "code_invalid" -> "bad_code"
      [] r = "phone_invalid" -> "bad_phone"
      [] r = "password_invalid" -> "bad_password"

C11_NoDanglingConnection ==
    \A t \in TaskIds :
        (done(t) /\ ~tasks[t].watching) => ~tasks[t].connected

\* C12: a future that is done (set, timed out or cancelled) never changes
\* again, whatever code, password, /cancel or timeout comes after.
C12_FulfilledAtMostOnce ==
    [][\A k \in TaskIds :
          /\ FutDone(code_future[k]) => code_future'[k] = code_future[k]
          /\ FutDone(password_future[k]) => password_future'[k] = password_future[k]]_vars

\* A code message arrived for a login attempt whose code future had timed
\* out, and was ignored.
C12_CodeAfterTimeout ==
    \E c \in Convs :
        /\ conv[c] = "AWAIT_PASSWORD"
        /\ user_data[UserOf(c)] # 0
        /\ code_future[user_data[UserOf(c)]] = "timeout"
        /\ \A d \in Convs : d # c => conv[d] = "END"
        /\ NextTask = 2

\* The task has signed in: the collaborator gave it the account identity.
HasIdentity(t) == tasks[t].via \in {"session", "code", "password"}

\* C13: the session file of a user is written only by a step of a task of
\* that user that is connected and has obtained the account identity; a step
\* that ends a task before that point leaves the files as they are.
C13_WriteOnlyAfterAuthentication ==
    [][/\ \A u \in Users :
            (TaskSessionFile(u) \notin files /\ TaskSessionFile(u) \in files') =>
               \E t \in TaskIds :
                   /\ tasks[t].owner = u
                   /\ tasks[t].pc = "verify" /\ tasks'[t].pc = "done"
                   /\ tasks[t].connected
                   /\ HasIdentity(t)
       /\ \A t \in TaskIds :
            (tasks[t].pc \notin {"verify", "done"} /\ tasks'[t].pc = "done") =>
               files' \ files \subseteq {LibrarySessionFile(u) : u \in Users}
       /\ \A t \in TaskIds : tasks'[t].pc = "verify" =>
            tasks'[t].via \in {"session", "code", "password"}]_vars

\* A task has logged in and written its session file.
C13_SessionFileWritten ==
    \E t \in TaskIds :
        /\ tasks[t].result = "id"
        /\ TaskSessionFile(tasks[t].owner) \in files

\* C14: a task starts to wait for the password only from a sign-in with the
\* code, and it signs in with the code only after it waited on the code
\* future and received a value from it.
C14_PasswordAfterCode ==
    [][\A t \in TaskIds :
          /\ (tasks[t].pc # "await_password" /\ tasks'[t].pc = "await_password") =>
                tasks[t].pc = "sign_in_code"
          /\ (tasks[t].pc # "sign_in_code" /\ tasks'[t].pc = "sign_in_code") =>
                /\ tasks[t].pc = "await_code"
                /\ code_future[tasks[t].fut] = "value"
          /\ (tasks[t].pc # "sign_in_password" /\ tasks'[t].pc = "sign_in_password") =>
                /\ tasks[t].pc = "await_password"
                /\ password_future[tasks[t].fut] = "value"]_vars

\* A task waits for the password of the second factor.
C14_TaskAwaitsPassword ==
    \E t \in TaskIds :
        /\ tasks[t].pc = "await_password"
        /\ code_future[tasks[t].fut] = "value"

\* A reply was sent to the user.
MessageDelivered(reply) == reply # "no_reply"

\* received_password may have replied "Password received. Finalizing login"
\* before it awaited the login task: it does so when it sets the password.
PasswordAcknowledged(k) == password_future[k] = "value"

\* C16: every terminal branch of received_password (the login task gave an
\* id, gave None, raised a rejection or another error, was cancelled, ran
\* into the 30 s timeout, or is missing) and /cancel ends the conversation
\* with a message to the user, and with no registry entry for the user when
\* the login did not succeed.
C16_EveryBranchReplies ==
    [][\A c \in Convs :
          /\ received_password_end(c) =>
               /\ conv'[c] = "END"
               /\ \/ MessageDelivered(LoginReply(tasks[handler.task].result))
                  \/ PasswordAcknowledged(handler.task)
               /\ tasks[handler.task].result # "id" =>
                    active_user_telethon_tasks'[UserOf(c)] = 0
          /\ received_password_timeout(c) =>
               /\ conv'[c] = "END"
               /\ MessageDelivered(LoginReply("timeout"))
               /\ active_user_telethon_tasks'[UserOf(c)] = 0
          /\ (received_password_begin(c) /\ user_data[UserOf(c)] = 0) =>
               conv'[c] = "END"
          /\ cancel_login(c) =>
               /\ conv'[c] = "END"
               /\ active_user_telethon_tasks'[UserOf(c)] = 0]_vars


\* C20: when received_password has awaited the login task, a task that gave
\* None or raised, and a wait that timed out, leave no registry entry for
\* the user; a task that gave an id leaves the registry as it is and has the
\* id in the id file; in every case the LoginAttempt is cleared and the
\* conversation is ended.
C20_PasswordWaitOutcomes ==
    [][\A c \in Convs :
          /\ received_password_end(c) =>
               /\ IF tasks[handler.task].result = "id"
                  THEN /\ active_user_telethon_tasks' = active_user_telethon_tasks
                       /\ AccountId(UserOf(c)) \in Range(user_ids_file')
                  ELSE /\ active_user_telethon_tasks'[UserOf(c)] = 0
                       /\ user_ids_file' = user_ids_file
               /\ user_data'[UserOf(c)] = 0
               /\ conv'[c] = "END"
          /\ received_password_timeout(c) =>
               /\ active_user_telethon_tasks'[UserOf(c)] = 0
               /\ user_ids_file' = user_ids_file
               /\ user_data'[UserOf(c)] = 0
               /\ conv'[c] = "END"]_vars

----------------------------------------------------------------------------
(* The id file alone: add_user_id_to_store called with account ids in any   *)
(* order, starting from an empty file.                                      *)

\* Account ids given to add_user_id_to_store.
StoreIds == {5, 9, 12, 42, 100, 77700011, 1000000007}

store_id(id) ==
    /\ user_ids_file' = add_user_id_to_store(user_ids_file, id)
    /\ UNCHANGED <<conv, user_data, active_user_telethon_tasks, tasks, code_future,
                   password_future, files, authorized, handler>>
    /\ UNCHANGED relay

NextIds == \E id \in StoreIds : store_id(id)

SpecIds == Init /\ [][NextIds]_vars

Ascending(lines) == \A i \in 1..(Len(lines) - 1) : lines[i] < lines[i + 1]

\* C15: every call leaves the file holding the ids it held and the id added,
\* one per line in ascending order, and a call with an id the file holds
\* leaves the file as it is.
C15_IdFileSortedDistinct ==
    [][\A id \in StoreIds :
          store_id(id) =>
            /\ Range(user_ids_file') = Range(user_ids_file) \cup {id}
            /\ Ascending(user_ids_file')
            /\ Len(user_ids_file') = Cardinality(Range(user_ids_file'))
            /\ id \in Range(user_ids_file) => user_ids_file' = user_ids_file]_vars

\* All the ids were added, in some order.
C15_AllIdsStored == user_ids_file = <<5, 9, 12, 42, 100, 77700011, 1000000007>>

----------------------------------------------------------------------------
(* The watch phase: handle_outgoing_reply of user_media_saver.py, called    *)
(* for every outgoing message of the account that logged in.  The client is *)
(* created without sequential_updates, so the library runs the handler of   *)
(* each update in a task of its own; an invocation is at one of its awaits. *)

\* The account whose Session Task has logged in and is watching.
Watcher == 1

\* The state after a login of the Watcher: /login, the phone number, the
\* code, the password text; the task returned my_id and keeps monitoring.
InitRelay ==
    /\ conv = [c \in AllConvs |-> "END"]
    /\ user_data = [u \in Users |-> 0]
    /\ active_user_telethon_tasks = [u \in Users |-> IF u = Watcher THEN 1 ELSE 0]
    /\ tasks = [t \in TaskIds |->
                  IF t = 1
                  THEN [NoTask EXCEPT !.owner = Watcher, !.pc = "done", !.result = "id",
                                      !.connected = TRUE, !.watching = TRUE, !.via = "code"]
                  ELSE NoTask]
    /\ code_future = [t \in TaskIds |-> IF t = 1 THEN "value" ELSE "absent"]
    /\ password_future = [t \in TaskIds |-> IF t = 1 THEN "value" ELSE "absent"]
    /\ files = {LibrarySessionFile(Watcher), TaskSessionFile(Watcher)}
    /\ authorized = {Watcher}
    /\ user_ids_file = <<AccountId(Watcher)>>
    /\ handler = Idle
    /\ relay = [i \in Relays |-> NoRelay]

EventKinds == {"trigger", "not_a_reply", "other_text", "other_sender"}

\* The invocation returns, raises out of the handler, or is cancelled.
RelayEnds(r, outcome) == [r EXCEPT !.pc = "finished", !.outcome = outcome]

\* A variant of the relay without the finally block.
RemoveScratch_Skipped(r, removed) == r

\* The finally block of lines 200-206: os.remove(downloaded_file_path), an
\* OSError of which is logged.
RemoveScratch(r, removed) ==
    [r EXCEPT !.scratch = IF removed THEN "removed" ELSE "remove_failed"]

\* A variant of the relay that goes on to the sender and the download where
\* the handler reports and returns.
ReportOrReturn_GoesOn(r, pc) == [r EXCEPT !.pc = "sender"]

\* 'if status_msg: await status_msg.edit(...)' on the way out: without a
\* status message the text is logged and the handler returns.
ReportOrReturn(r, pc) ==
    IF r.status THEN [r EXCEPT !.pc = pc] ELSE RelayEnds(r, "returned")

HandshakeVars == <<conv, user_data, active_user_telethon_tasks, tasks, code_future,
                   password_future, files, authorized, user_ids_file, handler>>

\* An outgoing message arrives (events arrive in order): lines 110-121, up to
\* 'await event.reply(...)'.
RelayEvent(i, ev) ==
    /\ tasks[1].watching
    /\ relay[i].pc = "idle"
    /\ IF i = 1 THEN TRUE ELSE relay[i - 1].pc # "idle"
    /\ relay' = [relay EXCEPT ![i] = IF ev = "trigger" THEN [@ EXCEPT !.pc = "reply"]
                                     ELSE RelayEnds(@, "returned")]
    /\ UNCHANGED HandshakeVars

\* status_msg = await event.reply("Processing..."); a failure is logged
RelayStatusSent(i, ok) ==
    /\ relay[i].pc = "reply"
    /\ relay' = [relay EXCEPT ![i] = [@ EXCEPT !.pc = "fetch", !.status = ok]]
    /\ UNCHANGED HandshakeVars

FetchAnswers == {"media", "no_media", "none", "raises"}

\* target_message = await client.get_messages(...): lines 125-148
RelayFetched(i, ans) ==
    /\ relay[i].pc = "fetch"
    /\ relay' = [relay EXCEPT ![i] =
                   IF ans = "media" THEN [@ EXCEPT !.pc = "sender"]
                   ELSE IF ans = "no_media" THEN ReportOrReturn(@, "edit_no_media")
                   ELSE ReportOrReturn(@, "edit_error")]
    /\ UNCHANGED HandshakeVars

\* await status_msg.edit(error text) followed by return (lines 130, 136,
\* 177, 210): the edit is not inside a try block.
RelayErrorEdited(i, ok) ==
    /\ relay[i].pc = "edit_error"
    /\ relay' = [relay EXCEPT ![i] = RelayEnds(@, IF ok THEN "returned" ELSE "raised")]
    /\ UNCHANGED HandshakeVars

\* await status_msg.edit("... does not contain media"): line 141
RelayNoMediaEdited(i, ok) ==
    /\ relay[i].pc = "edit_no_media"
    /\ relay' = [relay EXCEPT ![i] = IF ok THEN [@ EXCEPT !.pc = "delay_no_media"]
                                     ELSE RelayEnds(@, "raised")]
    /\ UNCHANGED HandshakeVars

\* await asyncio.sleep(5), then status_msg.delete() inside try/except
RelayNoMediaDelayed(i) ==
    /\ relay[i].pc = "delay_no_media"
    /\ relay' = [relay EXCEPT ![i] = RelayEnds(@, "returned")]
    /\ UNCHANGED HandshakeVars

SenderAnswers == {"user", "none", "raises"}

\* media_sender = await target_message.get_sender(), the caption's sender
\* text, os.makedirs of the scratch directory, up to the call of
\* client.download_media (lines 150-166): none of it is inside a try block.
RelaySenderResolved(i, ans, dir_ok) ==
    /\ relay[i].pc = "sender"
    /\ relay' = [relay EXCEPT ![i] =
                   IF ans = "raises" THEN RelayEnds(@, "raised")
                   ELSE IF ~dir_ok
                   THEN RelayEnds([@ EXCEPT !.sender = IF ans = "user" THEN "name"
                                                       ELSE "Unknown User"], "raised")
                   ELSE [@ EXCEPT !.pc = "download",
                                  !.sender = IF ans = "user" THEN "name" ELSE "Unknown User"]]
    /\ UNCHANGED HandshakeVars

DownloadAnswers == {"ok", "raises", "no_path", "no_file"}

\* downloaded_file_path = await client.download_media(...): lines 163-179,
\* and the else branch of lines 207-210 when the path names no file.
RelayDownloaded(i, ans) ==
    /\ relay[i].pc = "download"
    /\ relay' = [relay EXCEPT ![i] =
                   IF ans = "ok" THEN [@ EXCEPT !.pc = "forward", !.scratch = "present"]
                   ELSE ReportOrReturn(@, "edit_error")]
    /\ UNCHANGED HandshakeVars

\* await client.send_file("me", ...): lines 185-199; without a status message
\* the try block is left at once and the finally block runs.
RelayForwarded(i, ok, removed) ==
    /\ relay[i].pc = "forward"
    /\ relay' = [relay EXCEPT ![i] =
                   IF relay[i].status
                   THEN [@ EXCEPT !.pc = IF ok THEN "edit_success" ELSE "edit_forward_error"]
                   ELSE RelayEnds(RemoveScratch(@, removed), "returned")]
    /\ UNCHANGED HandshakeVars

\* await status_msg.edit(success_text): a failure is caught by the except
\* clause of the send (line 196), which edits the status message again.
RelaySuccessEdited(i, ok) ==
    /\ relay[i].pc = "edit_success"
    /\ relay' = [relay EXCEPT ![i] = [@ EXCEPT !.pc = IF ok THEN "delay_success"
                                                      ELSE "edit_forward_error"]]
    /\ UNCHANGED HandshakeVars

\* await asyncio.sleep(10), status_msg.delete() inside try/except, finally
RelaySuccessDelayed(i, removed) ==
    /\ relay[i].pc = "delay_success"
    /\ relay' = [relay EXCEPT ![i] = RelayEnds(RemoveScratch(@, removed), "returned")]
    /\ UNCHANGED HandshakeVars

\* await status_msg.edit(error_msg) inside the except clause (line 199): a
\* failure leaves the handler after the finally block has run.
RelayForwardErrorEdited(i, ok, removed) ==
    /\ relay[i].pc = "edit_forward_error"
    /\ relay' = [relay EXCEPT ![i] =
                   RelayEnds(RemoveScratch(@, removed), IF ok THEN "returned" ELSE "raised")]
    /\ UNCHANGED HandshakeVars

\* The awaits between the download and the end of the try block of line 185.
InForwardBlock(r) ==
    r.pc \in {"forward", "edit_success", "delay_success", "edit_forward_error"}

\* The invocation's task is cancelled at its await: CancelledError passes the
\* except clauses, the finally block of the forward runs.
RelayCancelled(i, removed) ==
    /\ relay[i].pc \notin {"idle", "finished"}
    /\ relay' = [relay EXCEPT ![i] =
                   IF InForwardBlock(@) THEN RelayEnds(RemoveScratch(@, removed), "cancelled")
                   ELSE RelayEnds(@, "cancelled")]
    /\ UNCHANGED HandshakeVars

NextRelay ==
    \/ \E i \in Relays, ev \in EventKinds : RelayEvent(i, ev)
    \/ \E i \in Relays, ok \in BOOLEAN : RelayStatusSent(i, ok)
    \/ \E i \in Relays, ans \in FetchAnswers : RelayFetched(i, ans)
    \/ \E i \in Relays, ok \in BOOLEAN : RelayErrorEdited(i, ok)
    \/ \E i \in Relays, ok \in BOOLEAN : RelayNoMediaEdited(i, ok)
    \/ \E i \in Relays : RelayNoMediaDelayed(i)
    \/ \E i \in Relays, ans \in SenderAnswers, dir_ok \in BOOLEAN : RelaySenderResolved(i, ans, dir_ok)
    \/ \E i \in Relays, ans \in DownloadAnswers : RelayDownloaded(i, ans)
    \/ \E i \in Relays, ok \in BOOLEAN, removed \in BOOLEAN : RelayForwarded(i, ok, removed)
    \/ \E i \in Relays, ok \in BOOLEAN : RelaySuccessEdited(i, ok)
    \/ \E i \in Relays, removed \in BOOLEAN : RelaySuccessDelayed(i, removed)
    \/ \E i \in Relays, ok \in BOOLEAN, removed \in BOOLEAN : RelayForwardErrorEdited(i, ok, removed)
    \/ \E i \in Relays, removed \in BOOLEAN : RelayCancelled(i, removed)

SpecRelay == InitRelay /\ [][NextRelay]_vars

\* C17: no failure inside an invocation of the relay handler is raised out
\* of the handler.
C17_NoFailureEscapes == \A i \in Relays : relay[i].outcome # "raised"

\* The scratch file of the invocation is in the download directory.
ScratchExists(r) == r.scratch \in {"present", "remove_failed"}

\* C18 as stated: an invocation whose download succeeded has its scratch
\* file during the forward and has none once it has finished.
C18_ScratchAbsentAfterwards ==
    \A i \in Relays :
        /\ relay[i].pc = "forward" => ScratchExists(relay[i])
        /\ relay[i].pc = "finished" => ~ScratchExists(relay[i])

\* C18, amended: once the invocation has finished the scratch file has been
\* removed, or its removal failed with an OSError that was logged.
C18_ScratchRemovedOrRemovalFailed ==
    \A i \in Relays :
        /\ InForwardBlock(relay[i]) => relay[i].scratch = "present"
        /\ relay[i].pc = "finished" => relay[i].scratch # "present"

\* An invocation was cancelled after its download and has removed its file,
\* and another one failed to forward and has removed its file.
C18_CleanedUpAfterCancel ==
    /\ \E i \in Relays :
          /\ relay[i].pc = "finished" /\ relay[i].outcome = "cancelled"
          /\ relay[i].scratch = "removed"
    /\ \E i \in Relays :
          /\ relay[i].pc = "finished" /\ relay[i].outcome = "raised"
          /\ relay[i].scratch = "removed"

\* An invocation is between its first await and its end.
InProgress(r) == r.pc \notin {"idle", "finished"}

\* C19: the invocations of one account run one at a time: an event's relay
\* starts only when the relay of the event before it has finished.
C19_OneRelayAtATime ==
    Cardinality({i \in Relays : InProgress(relay[i])}) <= 1

\* The awaits of the branch for a replied-to message without media.
InNoMediaBranch(r) == r.pc \in {"edit_no_media", "delay_no_media"}

\* C21: when the replied-to message has no media, the invocation edits the
\* status message (when there is one) to the notice, waits the 5 s, deletes
\* the status message and returns; it never resolves the sender, creates the
\* scratch directory or a scratch file, downloads or forwards.
C21_NoMediaStopsBeforeDownload ==
    [][\A i \in Relays :
          /\ RelayFetched(i, "no_media") =>
               /\ relay'[i].pc = IF relay[i].status THEN "edit_no_media" ELSE "finished"
               /\ relay'[i].outcome = IF relay[i].status THEN "" ELSE "returned"
          /\ RelayNoMediaEdited(i, TRUE) => relay'[i].pc = "delay_no_media"
          /\ RelayNoMediaDelayed(i) =>
               relay'[i].pc = "finished" /\ relay'[i].outcome = "returned"
          /\ InNoMediaBranch(relay[i]) =>
               /\ relay'[i].pc \in {"edit_no_media", "delay_no_media", "finished"}
               /\ relay'[i].scratch = "absent"
               /\ relay'[i].sender = ""]_vars

\* An invocation found no media, has edited its status message and is in
\* the 5 s delay before it deletes it.
C21_InNoMediaDelay ==
    \E i \in Relays :
        /\ relay[i].pc = "delay_no_media"
        /\ relay[i].status
        /\ relay[i].scratch = "absent"

\* The task found its session authorized when it connected.
FromSession(t) == tasks[t].via = "session"

\* C22: a Session Task that connects with a session that is already
\* authorized requests no code and waits on no future: its next step is the
\* check and the write of the session file, after which it watches and
\* returns the identity (or ends without one when that step fails), whatever
\* the futures hold.
C22_AuthorizedSessionSkipsHandshake ==
    [][\A t \in TaskIds :
          /\ (TaskConnect(t, "ok") /\ tasks[t].owner \in authorized) =>
               /\ tasks'[t].pc = "verify"
               /\ tasks'[t].fut = 0
               /\ FromSession(t)'
          /\ (FromSession(t) /\ tasks[t].pc = "verify") =>
               /\ tasks'[t].pc \in {"verify", "done"}
               /\ tasks'[t].fut = 0
               /\ TaskVerify(t, "ok") =>
                    /\ tasks'[t].result = "id"
                    /\ tasks'[t].watching
                    /\ TaskSessionFile(tasks[t].owner) \in files'
                    /\ code_future' = code_future
                    /\ password_future' = password_future]_vars

\* A task logged in from its authorized session and watches, and the code
\* future of its login attempt was never fulfilled.
C22_LoggedInFromSession ==
    \E t \in TaskIds :
        /\ FromSession(t)
        /\ tasks[t].result = "id"
        /\ tasks[t].watching
        /\ code_future[t] = "pending"
        /\ password_future[t] = "pending"

\* The future task t waits on, as it is after the step.
AwaitedFuture(t) ==
    IF tasks[t].pc = "await_code" THEN code_future'[tasks[t].fut]
    ELSE password_future'[tasks[t].fut]

\* C23: a Session Task whose wait on the code future or on the password
\* future gives None (the future was fulfilled with None by /cancel, or the
\* 300 s wait timed out) disconnects and ends with the no-identity result;
\* it does not go on to a sign-in and does not watch.  (A task that the
\* cancellation reaches first does not get None and is not meant here.)
C23_NoneEndsTheTask ==
    [][\A t \in TaskIds :
          (/\ tasks[t].pc \in {"await_code", "await_password"}
           /\ tasks'[t].pc # tasks[t].pc
           /\ AwaitedFuture(t) \in {"nil", "timeout"}
           /\ tasks'[t].result # "cancelled")
          => /\ tasks'[t].pc = "done"
             /\ tasks'[t].result = "none"
             /\ ~tasks'[t].connected
             /\ ~tasks'[t].watching]_vars

\* The only login attempt so far gave its code, then its 300 s wait for the
\* password timed out and the task ended disconnected without an identity.
C23_PasswordWaitGaveNone ==
    /\ NextTask = 2
    /\ code_future[1] = "value"
    /\ password_future[1] = "timeout"
    /\ tasks[1].result = "none"
    /\ ~tasks[1].connected
    /\ ~tasks[1].watching

\* C24: every text in AWAIT_CODE moves the conversation to AWAIT_PASSWORD.
\* When the code future of the user's login attempt is still pending the text
\* fulfills it and the reply asks for the password; otherwise (no login
\* attempt, or a future already fulfilled, timed out or cancelled) no future
\* changes and the reply is the already-processed notice.  In both cases the
\* tasks, the registry, the password future and the login attempt stay as
\* they were.
C24_CodeInputFulfillsOnlyPending ==
    [][\A c \in Convs :
          received_code(c) =>
            LET k == user_data[UserOf(c)]
                pending == IF k = 0 THEN FALSE ELSE code_future[k] = "pending"
            IN
            /\ conv'[c] = "AWAIT_PASSWORD"
            /\ code_future' = IF pending THEN [code_future EXCEPT ![k] = "value"]
                              ELSE code_future
            /\ received_code_reply(c) = IF pending THEN "ask_password"
                                        ELSE "already_processed"
            /\ tasks' = tasks
            /\ active_user_telethon_tasks' = active_user_telethon_tasks
            /\ password_future' = password_future
            /\ user_data' = user_data]_vars

\* A conversation is in AWAIT_PASSWORD, the code future of its login attempt
\* has just been fulfilled and the task still waits on it.
C24_CodeJustFulfilled ==
    \E c \in Convs :
        LET k == user_data[UserOf(c)] IN
        /\ conv[c] = "AWAIT_PASSWORD"
        /\ k # 0
        /\ code_future[k] = "value"
        /\ tasks[k].pc = "await_code"

\* C25: while a conversation of user u is in AWAIT_CODE or AWAIT_PASSWORD,
\* the registry has an entry for u and the entry is the Session Task of u's
\* login attempt.
C25_RegistryMatchesLoginAttempt ==
    \A c \in Convs :
        conv[c] \in {"AWAIT_CODE", "AWAIT_PASSWORD"} =>
            /\ active_user_telethon_tasks[UserOf(c)] # 0
            /\ active_user_telethon_tasks[UserOf(c)] = user_data[UserOf(c)]

\* C26: the id list changes only in the step in which received_password sees
\* its awaited Session Task completed with an integer identity, and then by
\* storing that identity; no other step of a handshake, /cancel and /logout
\* included, changes the list.
C26_IdStoredOnlyOnIdentity ==
    [][user_ids_file' # user_ids_file =>
          \E c \in Convs :
              /\ received_password_end(c)
              /\ tasks[handler.task].result = "id"
              /\ user_ids_file' =
                     add_user_id_to_store(user_ids_file, AccountId(UserOf(c)))]_vars

\* The list holds the identity of a login that succeeded, and a later
\* handshake of the user that ended without an identity left it as it was.
C26_FailedHandshakeLeftList ==
    /\ user_ids_file = <<AccountId(1)>>
    /\ \E t \in TaskIds : tasks[t].result = "id"
    /\ \E t \in TaskIds : tasks[t].result \in {"none", "cancelled", "code_invalid"}
    /\ user_data[1] = 0
    /\ \A c \in Convs : conv[c] = "END"

\* C27: the 30 s wait of received_password that times out cancels the
\* Session Task, so when the handshake has ended in the timeout failure no
\* Session Task of the user waits on a future or is still on its way to the
\* watch phase (every task of the user has ended), and a task that has ended
\* without watching does not start to watch later.
C27_TimeoutStopsTheUsersTasks ==
    [][/\ \A c \in Convs :
             received_password_timeout(c) =>
                 \A t \in TaskIds :
                     tasks[t].owner = UserOf(c) => done(t)'
       /\ \A t \in TaskIds :
             (done(t) /\ ~tasks[t].watching) => ~tasks'[t].watching]_vars

\* What the program holds for user u: the registry entry, the login attempt,
\* the Session Tasks of u with their futures, and u's session files.
UserState(u) ==
    [entry |-> active_user_telethon_tasks[u],
     attempt |-> user_data[u],
     sessions |-> [t \in TaskIds |->
                      IF tasks[t].owner = u
                      THEN <<tasks[t], code_future[t], password_future[t]>>
                      ELSE <<>>],
     credentials |-> files \cap {LibrarySessionFile(u), TaskSessionFile(u)},
     authorized |-> u \in authorized]

\* A handler of the bot runs for conversation c.
HandlerStep(c) ==
    \/ login_entry(c)
    \/ \E text \in PhoneInputs : received_phone(c, text)
    \/ received_code(c)
    \/ received_password_begin(c)
    \/ received_password_end(c)
    \/ received_password_timeout(c)
    \/ cancel_login(c)
    \/ \E removed \in BOOLEAN : logout_command(c, removed)
    \/ conversation_timeout(c)

\* Session Task t takes a step of its handshake.
TaskStep(t) ==
    \/ \E ans \in ConnectAnswers : TaskConnect(t, ans)
    \/ \E ans \in SendCodeAnswers : TaskSendCode(t, ans)
    \/ TaskCodeReceived(t)
    \/ CodeWaitTimeout(t)
    \/ \E ans \in SignInCodeAnswers : TaskSignInCode(t, ans)
    \/ TaskPasswordReceived(t)
    \/ PasswordWaitTimeout(t)
    \/ \E ans \in SignInPasswordAnswers : TaskSignInPassword(t, ans)
    \/ \E ans \in VerifyAnswers : TaskVerify(t, ans)

\* C28: /cancel, /logout and every other handler run for user A, and every
\* step of a Session Task of A, leave the registry entry, the login attempt,
\* the Session Tasks, the futures and the session files of every other user
\* B as they were: a step that changes what the program holds for B is no
\* handler run for another user and no step of another user's Session Task.
C28_OtherUsersUntouched ==
    [][\A B \in Users :
          UserState(B)' # UserState(B) =>
              /\ \A c \in UserConvs : UserOf(c) # B => ~HandlerStep(c)
              /\ \A t \in TaskIds : tasks[t].owner # B => ~TaskStep(t)]_vars

\* User B is in a handshake, its Session Task waiting for the code with both
\* futures pending, after the Session Task of another user A was cancelled and
\* A's registry entry removed.
C28_OtherUserStillInHandshake ==
    \E A \in Users, B \in Users :
        /\ A # B
        /\ active_user_telethon_tasks[A] = 0
        /\ \E t \in TaskIds : tasks[t].owner = A /\ tasks[t].result = "cancelled"
        /\ active_user_telethon_tasks[B] # 0
        /\ user_data[B] = active_user_telethon_tasks[B]
        /\ tasks[active_user_telethon_tasks[B]].owner = B
        /\ tasks[active_user_telethon_tasks[B]].pc = "await_code"
        /\ code_future[active_user_telethon_tasks[B]] = "pending"
        /\ LibrarySessionFile(B) \in files

====
